---- MODULE Spec2Model ----
(***************************************************************************)
(* Model of ClassVersion.cpp (the filter-capable variant, lines 1-248):    *)
(* the ToolDatabase accumulated by FindNamedClassVisitor, the name filter  *)
(* shouldVisit, the three dump() serializers and main/dump_tool_database.  *)
(* Text is modelled as a sequence of one-character strings.                *)
(***************************************************************************)
EXTENDS Integers, Sequences, FiniteSets, TLC

VARIABLES
    matchList,       \* the -m option: sequence of patterns
    OutputFilename,  \* the -o option
    fileOpens,       \* environment: std::ofstream on OutputFilename succeeds
    m_classes,       \* global_tdb.m_classes
    pc,              \* "run" while Tool.run is in progress, "done" after main returns
    result,          \* main's return value
    outs,            \* text written to llvm::outs()
    file,            \* text written to the output file
    errs,            \* messages written to llvm::errs()
    events,          \* history: the declaration-visit events delivered so far
    failed,          \* Tool.run has failed on some source unit
    unit,            \* number of translation units whose traversal has started
    indent           \* base indent handed to ToolDatabase::dump

vars == <<matchList, OutputFilename, fileOpens, m_classes, pc, result, outs,
          file, errs, events, failed, unit, indent>>

----------------------------------------------------------------------------
(* Bounds *)

MaxEvents == 2
MaxMembers == 2
MaxUnits == 2
MaxIndent == 2
MaxDumpClasses == 2
MaxDumpFields == 2
MaxNameLen == 3
MaxPatLen == 2
MaxPatterns == 2

----------------------------------------------------------------------------
(* Text *)

SP == <<" ">>

\* src 33-39
RECURSIVE appendVal(_, _, _)
appendVal(t, a, num) ==
    IF num <= 0 THEN t ELSE appendVal(t \o a, a, num - 1)

\* src 46-57
FieldDatabase_dump(out, fdb, ind) ==
    LET indent_str == appendVal(<<>>, SP, ind)
        member_indent_str == appendVal(<<>>, SP, ind + 4)
        o1 == out \o indent_str \o <<"{", "\n">>
        o2 == o1 \o member_indent_str
                 \o <<"\"", "t", "y", "p", "e", "\"", " ", ":", " ", "\"">>
                 \o fdb.type \o <<"\"", ",", "\n">>
        o3 == o2 \o member_indent_str
                 \o <<"\"", "v", "a", "r", "i", "a", "b", "l", "e", "\"", ":", " ", "\"">>
                 \o fdb.variable \o <<"\"">>
    IN  o3 \o <<"\n">> \o indent_str \o <<"}">>

\* mutant: field blocks at the record's entry column plus 0, as ind + 4
RECURSIVE dumpFields_shallow(_, _, _, _)
dumpFields_shallow(out, fields, iter, ind) ==
    IF iter >= Len(fields) THEN out
    ELSE LET o1 == IF iter > 0 THEN out \o <<",", "\n">> ELSE out
         IN  dumpFields_shallow(FieldDatabase_dump(o1, fields[iter + 1], ind + 4),
                                fields, iter + 1, ind)

\* src 90-99: the loop over m_fields
RECURSIVE dumpFields(_, _, _, _)
dumpFields(out, fields, iter, ind) ==
    IF iter >= Len(fields) THEN out
    ELSE LET o1 == IF iter > 0 THEN out \o <<",", "\n">> ELSE out
         IN  dumpFields(FieldDatabase_dump(o1, fields[iter + 1], ind + 8),
                        fields, iter + 1, ind)

\* mutant: an empty field list rendered as an empty quoted string
ClassDatabase_dump_emptyString(out, cdb, ind) ==
    LET indent_str == appendVal(<<>>, SP, ind)
        member_indent_str == appendVal(<<>>, SP, ind + 4)
        o2 == out \o indent_str \o <<"{", "\n">> \o member_indent_str
                  \o <<"\"", "n", "a", "m", "e", "\"", ":", " ", "\"">>
                  \o cdb.m_name \o <<"\"", ",", "\n">>
        o3 == IF cdb.m_fields = <<>>
              THEN o2 \o member_indent_str
                      \o <<"\"", "f", "i", "e", "l", "d", "s", "\"", ":", " ", "\"", "\"">>
              ELSE LET b == o2 \o member_indent_str
                               \o <<"\"", "f", "i", "e", "l", "d", "s", "\"", ":", "\n">>
                               \o member_indent_str \o <<"[", "\n">>
                   IN  dumpFields(b, cdb.m_fields, 0, ind)
                           \o <<"\n">> \o member_indent_str \o <<"]">>
    IN  o3 \o <<"\n">> \o indent_str \o <<"}">>

\* src 74-104
ClassDatabase_dump(out, cdb, ind) ==
    LET indent_str == appendVal(<<>>, SP, ind)
        member_indent_str == appendVal(<<>>, SP, ind + 4)
        o1 == out \o indent_str \o <<"{", "\n">>
        o2 == o1 \o member_indent_str
                 \o <<"\"", "n", "a", "m", "e", "\"", ":", " ", "\"">>
                 \o cdb.m_name \o <<"\"", ",", "\n">>
        o3 == IF cdb.m_fields = <<>>
              THEN o2 \o member_indent_str
                      \o <<"\"", "f", "i", "e", "l", "d", "s", "\"", ":", " ", "[", "]">>
              ELSE LET a == o2 \o member_indent_str
                               \o <<"\"", "f", "i", "e", "l", "d", "s", "\"", ":", "\n">>
                       b == a \o member_indent_str \o <<"[", "\n">>
                       c == dumpFields(b, cdb.m_fields, 0, ind)
                   IN  c \o <<"\n">> \o member_indent_str \o <<"]">>
    IN  o3 \o <<"\n">> \o indent_str \o <<"}">>

\* mutant: the loop stops one record early
RECURSIVE dumpClasses_dropLast(_, _, _, _)
dumpClasses_dropLast(out, classes, iter, ind) ==
    IF iter >= Len(classes) - 1 THEN out
    ELSE LET o1 == IF iter > 0 THEN out \o <<",", "\n">> ELSE out
         IN  dumpClasses_dropLast(ClassDatabase_dump(o1, classes[iter + 1], ind + 4),
                                  classes, iter + 1, ind)

\* src 125-134: the loop over m_classes
RECURSIVE dumpClasses(_, _, _, _)
dumpClasses(out, classes, iter, ind) ==
    IF iter >= Len(classes) THEN out
    ELSE LET o1 == IF iter > 0 THEN out \o <<",", "\n">> ELSE out
         IN  dumpClasses(ClassDatabase_dump(o1, classes[iter + 1], ind + 4),
                         classes, iter + 1, ind)

\* mutant: no newline before the closing bracket
ToolDatabase_dump_tight(out, classes, ind) ==
    LET indent_str == appendVal(<<>>, SP, ind)
        o1 == out \o <<"\n">> \o indent_str \o <<"[", "\n">>
    IN  dumpClasses(o1, classes, 0, ind) \o indent_str \o <<"]">>

\* src 120-137
ToolDatabase_dump(out, classes, ind) ==
    LET indent_str == appendVal(<<>>, SP, ind)
        o1 == out \o <<"\n">> \o indent_str \o <<"[", "\n">>
        o2 == dumpClasses(o1, classes, 0, ind)
    IN  o2 \o <<"\n">> \o indent_str \o <<"]">>

----------------------------------------------------------------------------
(* Name filter and traversal adapter *)

npos == -1

\* std::string compare of m against s at offset pos, character by character
RECURSIVE matchAt(_, _, _, _)
matchAt(s, m, pos, k) ==
    IF k >= Len(m) THEN TRUE
    ELSE IF s[pos + k + 1] # m[k + 1] THEN FALSE
    ELSE matchAt(s, m, pos, k + 1)

\* class_name.find(m), src 160: first offset at which m occurs, else npos
RECURSIVE findFrom(_, _, _)
findFrom(s, m, pos) ==
    IF pos + Len(m) > Len(s) THEN npos
    ELSE IF matchAt(s, m, pos, 0) THEN pos
    ELSE findFrom(s, m, pos + 1)

\* mutant: m is only looked for at offset 0
find_at_start(s, m) ==
    IF Len(m) <= Len(s) /\ matchAt(s, m, 0, 0) THEN 0 ELSE npos

find(s, m) == findFrom(s, m, 0)

\* src 158-164: the loop over matchList
RECURSIVE anyMatch(_, _, _)
anyMatch(list, i, class_name) ==
    IF i > Len(list) THEN FALSE
    ELSE IF find(class_name, list[i]) # npos THEN TRUE
    ELSE anyMatch(list, i + 1, class_name)

\* src 148-167
shouldVisit(list, class_name) ==
    IF list = <<>> THEN TRUE ELSE anyMatch(list, 1, class_name)

\* mutant: a name already in the database gets no second record
addClass_merge(classes, name) ==
    IF \E i \in 1..Len(classes) : classes[i].m_name = name THEN classes
    ELSE Append(classes, [m_name |-> name, m_fields |-> <<>>])

\* mutant: the new record is put in front
addClass_front(classes, name) ==
    <<[m_name |-> name, m_fields |-> <<>>]>> \o classes

\* src 114-118: emplace_back; the new record is m_classes.back()
addClass(classes, name) ==
    Append(classes, [m_name |-> name, m_fields |-> <<>>])

\* mutant: the new field is put in front
addField_front(cdb) ==
    [cdb EXCEPT !.m_fields = <<[type |-> <<>>, variable |-> <<>>]>> \o @]

\* src 64-68: emplace_back; the new field is m_fields.back()
addField(cdb) ==
    [cdb EXCEPT !.m_fields = Append(@, [type |-> <<>>, variable |-> <<>>])]

\* src 179-184: cdb is classes.back(), fdb is cdb.m_fields.back()
RECURSIVE visitFields(_, _, _)
visitFields(classes, members, i) ==
    IF i >= Len(members) THEN classes
    ELSE LET n == Len(classes)
             c1 == addField(classes[n])
             k == Len(c1.m_fields)
             c2 == [c1 EXCEPT !.m_fields[k].type = members[i + 1].type,
                              !.m_fields[k].variable = members[i + 1].name]
         IN  visitFields([classes EXCEPT ![n] = c2], members, i + 1)

\* src 197-200: traversal of one more translation unit starts; global_tdb is kept
HandleTranslationUnit ==
    /\ pc = "run"
    /\ unit < MaxUnits
    /\ unit' = unit + 1
    /\ UNCHANGED <<matchList, OutputFilename, fileOpens, m_classes, pc, result,
                   outs, file, errs, events, failed, indent>>

\* src 172-186
VisitCXXRecordDecl(name, members) ==
    LET visit == shouldVisit(matchList, name)
    IN  /\ pc = "run"
        /\ unit >= 1
        /\ events' = Append(events, [name |-> name, members |-> members,
                                     visit |-> visit])
        /\ m_classes' = IF ~visit THEN m_classes
                        ELSE visitFields(addClass(m_classes, name), members, 0)
        /\ UNCHANGED <<matchList, OutputFilename, fileOpens, pc, result, outs,
                       file, errs, failed, unit, indent>>

\* src 242: the external ClangTool fails on the unit being processed; Tool.run
\* goes on with the remaining units and finally returns non-zero
UnitFails ==
    /\ pc = "run"
    /\ unit >= 1
    /\ ~failed
    /\ failed' = TRUE
    /\ UNCHANGED <<matchList, OutputFilename, fileOpens, m_classes, pc, result,
                   outs, file, errs, events, unit, indent>>

----------------------------------------------------------------------------
(* Pipeline driver *)

\* mutant: the stream's state is not tested after opening the file
dump_tool_database_unchecked ==
    IF OutputFilename = "-"
    THEN /\ outs' = ToolDatabase_dump(outs, m_classes, 0) \o <<"\n">>
         /\ result' = 0
         /\ UNCHANGED <<file, errs>>
    ELSE /\ file' = IF fileOpens THEN ToolDatabase_dump(<<>>, m_classes, 0) ELSE file
         /\ result' = 0
         /\ UNCHANGED <<outs, errs>>

\* src 217-236
dump_tool_database ==
    IF OutputFilename = "-"
    THEN /\ outs' = ToolDatabase_dump(outs, m_classes, 0) \o <<"\n">>
         /\ result' = 0
         /\ UNCHANGED <<file, errs>>
    ELSE IF ~fileOpens
    THEN /\ errs' = errs \o <<"Failed to open output file ", OutputFilename,
                              " for writing.">>
         /\ result' = 1
         /\ UNCHANGED <<outs, file>>
    ELSE /\ file' = ToolDatabase_dump(<<>>, m_classes, 0)
         /\ result' = 0
         /\ UNCHANGED <<outs, errs>>

\* mutant: the database is dumped whatever Tool.run returned
main_dumps_always ==
    /\ pc = "run"
    /\ dump_tool_database
    /\ pc' = "done"
    /\ UNCHANGED <<matchList, OutputFilename, fileOpens, m_classes, events,
                   failed, unit, indent>>

\* src 238-248: Tool.run has returned
main ==
    /\ pc = "run"
    /\ LET run_result == IF failed THEN 1 ELSE 0
       IN  IF run_result = 0
           THEN dump_tool_database
           ELSE /\ result' = run_result
                /\ UNCHANGED <<outs, file, errs>>
    /\ pc' = "done"
    /\ UNCHANGED <<matchList, OutputFilename, fileOpens, m_classes, events,
                   failed, unit, indent>>

\* src 120-137 applied to a given database with a given base indent
Serialize ==
    /\ pc = "run"
    /\ outs' = ToolDatabase_dump(outs, m_classes, indent)
    /\ pc' = "done"
    /\ UNCHANGED <<matchList, OutputFilename, fileOpens, m_classes, result,
                   file, errs, events, failed, unit, indent>>

----------------------------------------------------------------------------
(* Inputs *)

SeqsUpTo(S, n) == UNION {[1..k -> S] : k \in 0..n}

Foo == <<"F", "o", "o">>
Bar == <<"B", "a", "r">>
NsFooBaz == <<"N", "s", "F", "o", "o", ":", ":", "B", "a", "z">>

\* fdcl->getType().getAsString() of the i-th direct member
MemberType(i) ==
    IF i % 2 = 1 THEN <<"i", "n", "t">> ELSE <<"c", "h", "a", "r", " ", "*">>

\* fdcl->getQualifiedNameAsString() of the i-th direct member of class name
MemberName(name, i) == name \o <<":", ":">> \o appendVal(<<"m">>, <<"x">>, i)

\* the first k direct members of the declaration called name
MembersOf(name, k) ==
    [i \in 1..k |-> [type |-> MemberType(i), name |-> MemberName(name, i)]]

EventNames == {Foo, Bar}

MatchLists == {<<>>, <<Foo>>, <<<<"B", "a", "z">>, <<"a", "r">>>>}

Sinks == {<<"-", TRUE>>, <<"out.json", TRUE>>, <<"out.json", FALSE>>}

\* the strings of the filter specification: every string over {a, b} up to a
\* length, and the names of the documented scenario
Alphabet == {"a", "b"}
FilterNames == SeqsUpTo(Alphabet, MaxNameLen) \cup {Foo, Bar, NsFooBaz}
FilterPatterns == SeqsUpTo(Alphabet, MaxPatLen) \cup {Foo}
FilterLists == SeqsUpTo(FilterPatterns, MaxPatterns)

\* the databases of the serializer specification: names and types as clang
\* prints them, some with quote, brace and bracket characters in them
PlainName == <<"A">>
QuoteName == <<"T", "<", "'", "\"", "'", ">", ":", ":", "I">>
DumpNames == {PlainName, QuoteName}

PlainField(i) == [type |-> MemberType(i), variable |-> MemberName(PlainName, i)]
OddField(i) ==
    [type |-> IF i % 2 = 1 THEN <<"T", "<", "'", "{", "'", ">">>
              ELSE <<"i", "n", "t", " ", "[", "2", "]">>,
     variable |-> MemberName(PlainName, i)]

DumpFieldLists ==
    {[i \in 1..k |-> PlainField(i)] : k \in 0..MaxDumpFields}
        \cup {[i \in 1..k |-> OddField(i)] : k \in 0..MaxDumpFields}

DumpRecords ==
    {[m_name |-> n, m_fields |-> f] : n \in DumpNames, f \in DumpFieldLists}

DumpDatabases == SeqsUpTo(DumpRecords, MaxDumpClasses)

----------------------------------------------------------------------------
(* Specifications *)

\* the state after static initialisation and option parsing, src 26-30, 143
Init ==
    /\ matchList \in MatchLists
    /\ \E s \in Sinks : OutputFilename = s[1] /\ fileOpens = s[2]
    /\ m_classes = <<>>
    /\ pc = "run"
    /\ result = 0
    /\ outs = <<>>
    /\ file = <<>>
    /\ errs = <<>>
    /\ events = <<>>
    /\ failed = FALSE
    /\ unit = 0
    /\ indent = 0

Next ==
    \/ HandleTranslationUnit
    \/ \E name \in EventNames, k \in 0..MaxMembers :
           /\ Len(events) < MaxEvents
           /\ VisitCXXRecordDecl(name, MembersOf(name, k))
    \/ UnitFails
    \/ main

Spec == Init /\ [][Next]_vars

\* the name filter on its own: one visit with any pattern list and any name
InitFilter ==
    /\ matchList \in FilterLists
    /\ OutputFilename = "-"
    /\ fileOpens = TRUE
    /\ m_classes = <<>>
    /\ pc = "run"
    /\ result = 0
    /\ outs = <<>>
    /\ file = <<>>
    /\ errs = <<>>
    /\ events = <<>>
    /\ failed = FALSE
    /\ unit = 1
    /\ indent = 0

NextFilter ==
    \E name \in FilterNames :
        /\ events = <<>>
        /\ VisitCXXRecordDecl(name, <<>>)

SpecFilter == InitFilter /\ [][NextFilter]_vars

\* the serializer on its own: any database, any base indent
InitDump ==
    /\ matchList = <<>>
    /\ OutputFilename = "-"
    /\ fileOpens = TRUE
    /\ m_classes \in DumpDatabases
    /\ pc = "run"
    /\ result = 0
    /\ outs = <<>>
    /\ file = <<>>
    /\ errs = <<>>
    /\ events = <<>>
    /\ failed = FALSE
    /\ unit = 1
    /\ indent \in 0..MaxIndent

NextDump == Serialize

SpecDump == InitDump /\ [][NextDump]_vars

----------------------------------------------------------------------------
(* Reading the emitted text back *)

Positions(t) == [i \in 1..Len(t) |-> i]

CountOcc(t, k) ==
    Cardinality({i \in 1..(Len(t) - Len(k) + 1) : SubSeq(t, i, i + Len(k) - 1) = k})

StartsWith(s, p) == Len(s) >= Len(p) /\ SubSeq(s, 1, Len(p)) = p

NewlinePos(t) == SelectSeq(Positions(t), LAMBDA i : t[i] = "\n")

\* the lines of a text, without their newline characters
\* (the one-element sets below bind a value that is then computed once)
LinesAt(t, p) ==
    [k \in 1..(Len(p) + 1) |->
        SubSeq(t, IF k = 1 THEN 1 ELSE p[k - 1] + 1,
                  IF k = Len(p) + 1 THEN Len(t) ELSE p[k] - 1)]

Lines(t) == CHOOSE L \in {LinesAt(t, p) : p \in {NewlinePos(t)}} : TRUE

LeadingSpaces(l) ==
    CHOOSE k \in 0..Len(l) :
        /\ \A j \in 1..k : l[j] = " "
        /\ k = Len(l) \/ l[k + 1] # " "

Body(l) == SubSeq(l, LeadingSpaces(l) + 1, Len(l))

IsBracket(c) == c \in {"[", "]", "{", "}"}

BracketPos(t) == SelectSeq(Positions(t), LAMBDA i : IsBracket(t[i]))

\* Plain bracket/brace matching of a text: every bracket and brace character
\* is pushed or popped.  arrays counts the outermost arrays, recs lists the
\* objects directly inside an outermost array, each with the objects directly
\* inside an array directly inside it; from/to are text positions.
RECURSIVE scan(_, _, _, _)
scan(t, bp, i, st) ==
    IF ~st.ok THEN st
    ELSE IF i > Len(bp) THEN [st EXCEPT !.ok = (st.stack = <<>>)]
    ELSE
      LET p == bp[i]
          c == t[p]
          d == Len(st.stack)
          n == Len(st.recs)
      IN  IF c \in {"[", "{"}
          THEN LET st1 ==
                     CASE c = "[" /\ d = 0 -> [st EXCEPT !.arrays = @ + 1]
                       [] c = "{" /\ st.stack = <<"[">> ->
                            [st EXCEPT !.recs = Append(@,
                                 [from |-> p, to |-> 0, fields |-> <<>>])]
                       [] c = "{" /\ st.stack = <<"[", "{", "[">> ->
                            [st EXCEPT !.recs[n].fields =
                                 Append(@, [from |-> p, to |-> 0])]
                       [] OTHER -> st
               IN  scan(t, bp, i + 1, [st1 EXCEPT !.stack = Append(@, c)])
          ELSE IF d = 0 \/ st.stack[d] # (IF c = "]" THEN "[" ELSE "{")
          THEN [st EXCEPT !.ok = FALSE]
          ELSE LET popped == SubSeq(st.stack, 1, d - 1)
                   st1 ==
                     CASE c = "}" /\ popped = <<"[">> ->
                            [st EXCEPT !.recs[n].to = p]
                       [] c = "}" /\ popped = <<"[", "{", "[">> ->
                            [st EXCEPT !.recs[n].fields[Len(st.recs[n].fields)].to = p]
                       [] OTHER -> st
               IN  scan(t, bp, i + 1, [st1 EXCEPT !.stack = popped])

ReadBack(t) ==
    scan(t, BracketPos(t), 1,
         [stack |-> <<>>, ok |-> TRUE, arrays |-> 0, recs |-> <<>>])

\* the record's and field's strings
StringsOf(cdb) ==
    {cdb.m_name} \cup UNION {{cdb.m_fields[j].type, cdb.m_fields[j].variable} :
                                 j \in 1..Len(cdb.m_fields)}

HasChar(str, chars) == \E j \in 1..Len(str) : str[j] \in chars

\* no name or type of the database holds a bracket or brace character
NoBracketChars(classes) ==
    \A i \in 1..Len(classes) : \A str \in StringsOf(classes[i]) :
        ~HasChar(str, {"[", "]", "{", "}"})

\* nor a double quote
PlainStrings(classes) ==
    /\ NoBracketChars(classes)
    /\ \A i \in 1..Len(classes) : \A str \in StringsOf(classes[i]) :
           ~HasChar(str, {"\""})

NameKey == <<"\"", "n", "a", "m", "e", "\"", ":", " ", "\"">>
FieldsKey == <<"\"", "f", "i", "e", "l", "d", "s", "\"", ":">>
TypeKey == <<"\"", "t", "y", "p", "e", "\"", " ", ":", " ", "\"">>
VariableKey == <<"\"", "v", "a", "r", "i", "a", "b", "l", "e", "\"", ":", " ", "\"">>
EmptyArrayEntry == FieldsKey \o <<" ", "[", "]">>
EmptyStringEntry == FieldsKey \o <<" ", "\"", "\"">>

\* the number of entries "key": or "key" : a text holds
EntryCount(t) == CountOcc(t, <<"\"", ":">>) + CountOcc(t, <<"\"", " ", ":">>)

----------------------------------------------------------------------------
(* Serializer claims, checked under SpecDump *)

\* per line of a text: its indentation and what follows the indentation
LineInfo(l) ==
    CHOOSE x \in {[ind |-> k, body |-> SubSeq(l, k + 1, Len(l))] :
                     k \in {LeadingSpaces(l)}} : TRUE

LineTable(t) ==
    CHOOSE T \in {[i \in 1..Len(L) |-> LineInfo(L[i])] : L \in {Lines(t)}} : TRUE

\* the lines that open a block whose first entry begins with key
BlockLines(T, key) ==
    {i \in 1..(Len(T) - 1) : T[i].body = <<"{">> /\ StartsWith(T[i + 1].body, key)}

\* the line of the top-level bracket
TopLine(T) ==
    CHOOSE i \in 1..Len(T) :
        /\ T[i].body = <<"[">>
        /\ \A j \in 1..(i - 1) : T[j].body # <<"[">>

\* the record block a field block lies in, given the record blocks' lines
RecordOf(recs, f) ==
    CHOOSE r \in recs : r < f /\ \A q \in recs : q < f => q <= r

RECURSIVE TotalFields(_)
TotalFields(classes) ==
    IF classes = <<>> THEN 0
    ELSE Len(Head(classes).m_fields) + TotalFields(Tail(classes))

\* C4 as stated: with base indent n, each record block is indented n more than
\* the top-level bracket, the record's entries 4 more than the record's brace,
\* and each field block 4 more than its containing record.
C4_Original ==
    pc = "done" =>
        \A T \in {LineTable(outs)} : \A recs \in {BlockLines(T, NameKey)} :
        LET top == T[TopLine(T)].ind
        IN  /\ \A r \in recs :
                   /\ T[r].ind = top + indent
                   /\ T[r + 1].ind = T[r].ind + 4
                   /\ T[r + 2].ind = T[r].ind + 4
            /\ \A f \in BlockLines(T, TypeKey) :
                   T[f].ind = T[RecordOf(recs, f)].ind + 4

\* C4 amended: with base indent n the top-level bracket is at column n, each
\* record block is indented a fixed 4 more than the top-level bracket, the
\* record's entries (name, fields) 4 more than the record's brace, and each
\* field block 4 more than the record's entries, that is 8 more than the
\* record's brace; every record and every field has its block.
C4_IndentationIsFixed ==
    pc = "done" =>
        \A T \in {LineTable(outs)} : \A recs \in {BlockLines(T, NameKey)} :
        LET top == T[TopLine(T)].ind
            flds == BlockLines(T, TypeKey)
        IN  /\ top = indent
            /\ Cardinality(recs) = Len(m_classes)
            /\ Cardinality(flds) = TotalFields(m_classes)
            /\ \A r \in recs :
                   /\ T[r].ind = top + 4
                   /\ StartsWith(T[r + 2].body, FieldsKey)
                   /\ T[r + 1].ind = T[r].ind + 4
                   /\ T[r + 2].ind = T[r].ind + 4
            /\ \A f \in flds :
                   /\ T[f].ind = T[RecordOf(recs, f) + 1].ind + 4
                   /\ T[f].ind = T[RecordOf(recs, f)].ind + 8

C4_Witness ==
    /\ pc = "done"
    /\ indent > 0
    /\ Len(m_classes) = 2
    /\ Len(m_classes[1].m_fields) = 2
    /\ Len(m_classes[2].m_fields) = 1

\* C5 as stated: the empty database is emitted as [ with ] on the line that
\* immediately follows.
C5_Original ==
    (pc = "done" /\ m_classes = <<>>) =>
        LET T == LineTable(outs)
        IN  /\ TopLine(T) < Len(T)
            /\ T[TopLine(T) + 1].body = <<"]">>

\* C5 amended: the empty database is emitted as a newline, [ at the base
\* indent, one empty line, and ] at the base indent: ] is two lines below [,
\* and nothing but that empty line lies between them.
C5_EmptyDatabaseText ==
    (pc = "done" /\ m_classes = <<>>) =>
        LET L == Lines(outs)
            T == LineTable(outs)
        IN  /\ Len(L) = 4
            /\ L[1] = <<>>
            /\ T[2].body = <<"[">> /\ T[2].ind = indent
            /\ L[3] = <<>>
            /\ T[4].body = <<"]">> /\ T[4].ind = indent

C5_Witness == pc = "done" /\ m_classes = <<>> /\ indent > 0 /\ outs # <<>>

\* C6: every record block holds exactly the entries name and fields; with no
\* fields the fields entry is [] and not ""; with k fields it is an array of
\* exactly k blocks, each holding exactly the entries type and variable.
\* Read from the text, for names and types without quote, bracket or brace
\* characters, which the text does not escape.
C6_FixedSchema ==
    (pc = "done" /\ PlainStrings(m_classes)) =>
        LET rb == ReadBack(outs)
        IN  /\ rb.ok
            /\ Len(rb.recs) = Len(m_classes)
            /\ \A i \in 1..Len(rb.recs) :
                   LET r == rb.recs[i]
                       seg == SubSeq(outs, r.from, r.to)
                       k == Len(m_classes[i].m_fields)
                   IN  /\ CountOcc(seg, NameKey) = 1
                       /\ CountOcc(seg, FieldsKey) = 1
                       /\ Len(r.fields) = k
                       /\ EntryCount(seg) = 2 + 2 * k
                       /\ k = 0 => /\ CountOcc(seg, EmptyArrayEntry) = 1
                                   /\ CountOcc(seg, EmptyStringEntry) = 0
                       /\ \A j \in 1..Len(r.fields) :
                              LET fseg == SubSeq(outs, r.fields[j].from, r.fields[j].to)
                              IN  /\ EntryCount(fseg) = 2
                                  /\ CountOcc(fseg, TypeKey) = 1
                                  /\ CountOcc(fseg, VariableKey) = 1

C6_Witness ==
    /\ pc = "done"
    /\ PlainStrings(m_classes)
    /\ Len(m_classes) = 2
    /\ Len(m_classes[1].m_fields) = 0
    /\ Len(m_classes[2].m_fields) = 2

\* what plain bracket/brace matching reads back equals the database's counts
CountsReadBack ==
    LET rb == ReadBack(outs)
    IN  /\ rb.ok
        /\ rb.arrays = 1
        /\ Len(rb.recs) = Len(m_classes)
        /\ \A i \in 1..Len(rb.recs) :
               Len(rb.recs[i].fields) = Len(m_classes[i].m_fields)

\* C7 as stated: whatever the strings, the emitted text bracket/brace-matches
\* to one object per record and one array entry per field.
C7_Original == pc = "done" => CountsReadBack

\* C7 amended: for every database whose names and types hold no bracket or
\* brace character, the emitted text bracket/brace-matches to one object per
\* record and one array entry per field.
C7_CountsReadBackWithoutBrackets ==
    (pc = "done" /\ NoBracketChars(m_classes)) => CountsReadBack

C7_Witness ==
    /\ pc = "done"
    /\ NoBracketChars(m_classes)
    /\ Len(m_classes) = 2
    /\ m_classes[1].m_name = QuoteName
    /\ Len(m_classes[1].m_fields) = 2
    /\ Len(m_classes[2].m_fields) = 2

----------------------------------------------------------------------------
(* Name filter claim, checked under SpecFilter *)

\* p occurs in q as a contiguous run of equal characters
IsSubstring(p, q) ==
    \E a \in 0..(Len(q) - Len(p)) : SubSeq(q, a + 1, a + Len(p)) = p

\* the Name Filter's contract
PassesFilter(Q, P) == P = <<>> \/ \E i \in 1..Len(P) : IsSubstring(P[i], Q)

\* C2: a visit is let through iff the pattern list is empty or some pattern
\* occurs in the qualified name as a contiguous, case-sensitive substring;
\* with the list <<Foo>>, Foo and NsFoo::Baz pass and Bar does not.
C2_FilterIsSubstringSearch ==
    \A i \in 1..Len(events) :
        LET e == events[i]
        IN  /\ e.visit <=> PassesFilter(e.name, matchList)
            /\ matchList = <<>> => e.visit
            /\ (matchList = <<Foo>> /\ e.name \in {Foo, NsFooBaz}) => e.visit
            /\ (matchList = <<Foo>> /\ e.name = Bar) => ~e.visit

C2_Witness ==
    /\ matchList = <<Foo>>
    /\ Len(events) = 1
    /\ events[1].name = NsFooBaz
    /\ events[1].visit
    /\ Len(m_classes) = 1

----------------------------------------------------------------------------
(* Traversal and driver claims, checked under Spec *)

\* the delivered events whose qualified name passes the Name Filter
Accepted == SelectSeq(events, LAMBDA e : PassesFilter(e.name, matchList))

\* C1: the database holds one record per accepted event, in the order of the
\* accepted events; equal names stay separate records.
C1_OneRecordPerAcceptedEvent ==
    /\ Len(m_classes) = Len(Accepted)
    /\ \A i \in 1..Len(m_classes) : m_classes[i].m_name = Accepted[i].name

C1_Witness ==
    /\ unit = 2
    /\ Len(events) = 2
    /\ Len(m_classes) = 2
    /\ m_classes[1].m_name = m_classes[2].m_name
    /\ matchList # <<>>

\* C3: a record's fields are the member pairs of the event that created it,
\* in number, order, type and name; an accepted event without members leaves
\* a record without fields.
C3_FieldsAreTheEventsMembers ==
    /\ Len(m_classes) = Len(Accepted)
    /\ \A i \in 1..Len(m_classes) :
           LET f == m_classes[i].m_fields
               m == Accepted[i].members
           IN  /\ Len(f) = Len(m)
               /\ \A j \in 1..Len(f) :
                      f[j].type = m[j].type /\ f[j].variable = m[j].name

C3_Witness ==
    /\ Len(m_classes) = 2
    /\ Len(m_classes[1].m_fields) = 2
    /\ Len(m_classes[2].m_fields) = 0

\* C8 as stated: after a run in which the provider failed on some unit, the
\* accumulated records have been serialized to the selected sink.
C8_Original ==
    (pc = "done" /\ failed /\ (OutputFilename = "-" \/ fileOpens)) =>
        (IF OutputFilename = "-" THEN outs ELSE file) # <<>>

\* C8 amended: after a run in which the provider failed on some unit, nothing
\* has been written to any sink, the accumulated records stay unserialized,
\* and main returns the provider's non-zero result.
C8_FailedRunEmitsNothing ==
    (pc = "done" /\ failed) =>
        /\ outs = <<>>
        /\ file = <<>>
        /\ errs = <<>>
        /\ result # 0

C8_Witness ==
    /\ pc = "done"
    /\ failed
    /\ Len(m_classes) > 0
    /\ OutputFilename = "-"

\* the text holds exactly one serialization of the database
SerializedOnce(text) ==
    LET rb == ReadBack(text)
    IN  /\ rb.ok
        /\ rb.arrays = 1
        /\ Len(rb.recs) = Len(m_classes)
        /\ \A i \in 1..Len(rb.recs) :
               Len(rb.recs[i].fields) = Len(m_classes[i].m_fields)

\* the number of "Failed to open output file" messages on llvm::errs()
FailureReports ==
    Cardinality({i \in 1..Len(errs) : errs[i] = "Failed to open output file "})

C10_VisitOnlyAppends ==
    [][/\ Len(m_classes') >= Len(m_classes)
       /\ SubSeq(m_classes', 1, Len(m_classes)) = m_classes
       /\ events' # events =>
              LET e == events'[Len(events')]
              IN  IF PassesFilter(e.name, matchList)
                  THEN /\ Len(m_classes') = Len(m_classes) + 1
                       /\ m_classes'[Len(m_classes')].m_name = e.name
                  ELSE m_classes' = m_classes]_vars

C10_Witness ==
    /\ Len(events) = 2
    /\ events[1].visit
    /\ Len(events[1].members) = 2
    /\ events[2].visit
    /\ events[2].name # events[1].name
    /\ Len(m_classes) = 2

====
